---- MODULE Spec2Model ----
(***************************************************************************)
(* State-machine model of the notebook cf_complient_wrf.ipynb: a Jupyter   *)
(* kernel session in which the code cells are executed one at a time.      *)
(* The kernel state is the namespace (which names are bound), the          *)
(* in-memory netCDF container dst, the xarray datasets ds and ds2, and the *)
(* files on disk.  A cell is one action: its statements run in order and   *)
(* an uncaught exception ends the cell, keeping what ran before it.        *)
(***************************************************************************)
EXTENDS Integers, Sequences, FiniteSets, TLC

\* ----------------------------------------------------------------- bounds
\* records along Time in the wrfxtrm file
MaxTime == 2
\* records along Time in the wrfout (coordinate) file
MaxCoordTime == 2
\* points along south_north and along west_east
MaxGrid == 2

\* ------------------------------------------------------- names and paths
SrcPath == "wrfxtrm_d02"
CoordPath == "wrfout_d02_2010-03-18_00:00:00"
DstPath == "dst_tmp.nc"
OutPath == "test.nc"
Paths == {SrcPath, CoordPath, DstPath, OutPath}

my_vars == <<"SPDUV10MEAN", "V10MEAN", "U10MEAN">>
coords == <<"XLAT", "XLONG">>

GridDims == <<"Time", "south_north", "west_east">>

Range(s) == {s[i] : i \in DOMAIN s}

\* ------------------------------------------------------ finite functions
EmptyFn == [x \in {} |-> 0]
Ext(f, key, val) == [x \in DOMAIN f \cup {key} |-> IF x = key THEN val ELSE f[x]]
Drop(f, key) == [x \in DOMAIN f \ {key} |-> f[x]]

\* -------------------------------------------------------- attribute values
\* An attribute value carries its Python type; val is its printed form.
StrVal(s) == [type |-> "str", val |-> s]
NumVal(s) == [type |-> "num", val |-> s]
ProjRepr == "PolarStereographic(stand_lon=-45.0, moad_cen_lat=-75.49999237060547, truelat1=-90.0, truelat2=-90.0, pole_lat=90.0, pole_lon=0.0)"
ProjObj == [type |-> "PolarStereographic", val |-> ProjRepr]

\* str(x): the printed form as a string; a string is returned as it is.
PyStr(v) == [type |-> "str", val |-> v.val]

\* xarray's check_attr: number, string, ndarray or list/tuple of them.
Serializable(v) == v.type \in {"str", "num"}

\* -------------------------------------------------------------- array data
\* An array is the sequence of its slices along the first dimension; a slice
\* is named by the variable and the record it was read from.
Slice(var, t) == [var |-> var, t |-> t]
Fill == Slice("_FillValue", 0)

\* ------------------------------------------------------ netCDF containers
\* A netCDF container: global attributes, dimensions (current length and
\* whether unlimited) and variables (dimension names, data, attributes).
EmptyNc == [atts |-> EmptyFn, dims |-> EmptyFn, vars |-> EmptyFn]

Max(a, b) == IF a >= b THEN a ELSE b

\* Variable.shape: the current length of each of the variable's dimensions.
NcShape(nc, name) ==
  [i \in DOMAIN nc.vars[name].dims |-> nc.dims[nc.vars[name].dims[i]].len]

\* var[:]: one slice per record of the first dimension; a record that was
\* never written reads as the fill value.
NcRead(nc, name) ==
  LET d == nc.vars[name].data
  IN [t \in 1..NcShape(nc, name)[1] |-> IF t <= Len(d) THEN d[t] ELSE Fill]

\* createDimension(name, size): size None makes the dimension unlimited,
\* with no record yet.
NcCreateDimension(nc, name, len, unlimited) ==
  [nc EXCEPT !.dims = Ext(@, name, [len |-> IF unlimited THEN 0 ELSE len,
                                    unlim |-> unlimited])]

NcCreateVariable(nc, name, dims) ==
  [nc EXCEPT !.vars = Ext(@, name, [dims |-> dims, data |-> <<>>, atts |-> EmptyFn])]

\* var[:] = data: the records are stored; an unlimited first dimension grows
\* to hold them.
NcAssign(nc, name, data) ==
  LET d1 == nc.vars[name].dims[1]
  IN [nc EXCEPT !.vars[name].data = data,
                !.dims[d1].len = IF nc.dims[d1].unlim THEN Max(@, Len(data)) ELSE @]

\* setncatts(dict): every attribute of the dict is set.
SetAtts(old, new) ==
  [a \in DOMAIN old \cup DOMAIN new |-> IF a \in DOMAIN new THEN new[a] ELSE old[a]]

NcSetVarAtts(nc, name, atts) == [nc EXCEPT !.vars[name].atts = SetAtts(@, atts)]

\* ------------------------------------------------------------------- files
Absent == [kind |-> "absent", nc |-> EmptyNc]
NcFile(nc) == [kind |-> "netcdf", nc |-> nc]

\* Attributes the WRF files give a wind variable (those cell 16 prints,
\* before wrf.getvar adds 'projection').
WrfVarAtts(v) ==
  [a \in {"FieldType", "MemoryOrder", "description", "units", "stagger", "coordinates"} |->
     CASE a = "FieldType" -> NumVal("104")
       [] a = "MemoryOrder" -> StrVal("XY ")
       [] a = "description" ->
            StrVal(IF v = "SPDUV10MEAN"
                   THEN "MEAN WIND SPEED AT 10M HEIGHT IN DIAGNOSTIC OUTPUT INTERVAL"
                   ELSE v)
       [] a = "units" -> StrVal("m s-1")
       [] a = "stagger" -> StrVal("")
       [] a = "coordinates" -> StrVal("XLONG XLAT XTIME")]

\* Global attributes read by cell 9 and by wrf.get_cartopy.
WrfGlobalAtts ==
  [a \in {"DT", "DX", "DY", "CEN_LAT", "CEN_LON", "TRUELAT1", "TRUELAT2",
          "STAND_LON", "POLE_LAT", "POLE_LON", "MAP_PROJ"} |-> NumVal(a)]

WrfDims(nT, unlimited, ny, nx) ==
  [d \in {"Time", "DateStrLen", "south_north", "west_east"} |->
     CASE d = "Time" -> [len |-> nT, unlim |-> unlimited]
       [] d = "DateStrLen" -> [len |-> 19, unlim |-> FALSE]
       [] d = "south_north" -> [len |-> ny, unlim |-> FALSE]
       [] d = "west_east" -> [len |-> nx, unlim |-> FALSE]]

\* The wrfxtrm file: Times and the wind variables, nT records each.
SrcFile(nT, unlimited, ny, nx) ==
  NcFile([atts |-> WrfGlobalAtts,
          dims |-> WrfDims(nT, unlimited, ny, nx),
          vars |-> [v \in {"Times"} \cup Range(my_vars) |->
                      IF v = "Times"
                      THEN [dims |-> <<"Time", "DateStrLen">>,
                            data |-> [t \in 1..nT |-> Slice("Times", t)],
                            atts |-> EmptyFn]
                      ELSE [dims |-> GridDims,
                            data |-> [t \in 1..nT |-> Slice(v, t)],
                            atts |-> WrfVarAtts(v)]]])

\* The wrfout file: XLAT and XLONG on the same grid, nTc records each.
CoordFile(nTc, ny, nx) ==
  NcFile([atts |-> WrfGlobalAtts,
          dims |-> WrfDims(nTc, TRUE, ny, nx),
          vars |-> [v \in Range(coords) |->
                      [dims |-> GridDims,
                       data |-> [t \in 1..nTc |-> Slice(v, t)],
                       atts |-> [a \in {"units", "description"} |->
                                   StrVal(IF a = "units" THEN "degree" ELSE v)]]]])

\* ---------------------------------------------------- netCDF4.Dataset I/O
\* Mutant: dst created as an ordinary file.
DisklessOff == FALSE
\* Whether dst is created with diskless=True (cell 6).
Diskless == TRUE
\* Dataset's persist argument is left at its default.
Persist == FALSE

\* Dataset(path, mode, diskless): what the call does to the disk.  Mode "r"
\* leaves it alone; mode "w" creates the file unless the dataset is diskless.
DatasetOpenDisk(disk, path, mode, diskless) ==
  IF mode = "w" /\ ~diskless THEN [disk EXCEPT ![path] = NcFile(EmptyNc)] ELSE disk

\* Dataset.close(): a dataset opened for writing is flushed to its file; a
\* diskless one only when persist was asked for.
DatasetCloseDisk(disk, path, mode, diskless, persist, nc) ==
  IF mode = "w" /\ (~diskless \/ persist) THEN [disk EXCEPT ![path] = NcFile(nc)] ELSE disk

\* An unbound dst, and a freshly created one.
NoDst == [open |-> FALSE, nc |-> EmptyNc]
NewDst == [open |-> TRUE, nc |-> EmptyNc]

\* ------------------------------------------------------------------ xarray
\* An xarray Dataset: dimension sizes, coordinates and data variables.
EmptyDs == [dims |-> EmptyFn, coords |-> EmptyFn, vars |-> EmptyFn]

\* wrf-python turns the Times character strings into datetime64 values.
DecodeTimes(s) == Slice("datetime64", s.t)

\* wrf.getvar(dst, v, timeidx=ALL_TIMES): the variable as a DataArray with
\* the 2-D XLONG/XLAT and the Time coordinate, the variable's own attributes
\* and a 'projection' attribute holding the projection object (cells 13, 16).
GetVar(nc, v) ==
  [name |-> v,
   dims |-> [d \in Range(GridDims) |-> nc.dims[d].len],
   coords |-> [c \in {"XLONG", "XLAT", "Time"} |->
                 IF c = "Time"
                 THEN [dims |-> <<"Time">>,
                       data |-> [t \in DOMAIN NcRead(nc, "Times") |->
                                   DecodeTimes(NcRead(nc, "Times")[t])]]
                 ELSE [dims |-> <<"south_north", "west_east">>,
                       data |-> <<NcRead(nc, c)[1]>>]],
   var |-> [dims |-> nc.vars[v].dims,
            data |-> NcRead(nc, v),
            attrs |-> Ext(nc.vars[v].atts, "projection", ProjObj)]]

\* xr.merge(da_list): one Dataset holding every DataArray under its name.
Merge(da_list) ==
  [dims |-> da_list[1].dims,
   coords |-> da_list[1].coords,
   vars |-> [v \in {da_list[i].name : i \in DOMAIN da_list} |->
               da_list[CHOOSE i \in DOMAIN da_list : da_list[i].name = v].var]]

\* The space-separated name lists of a 'coordinates' attribute.
SplitNames(s) ==
  CASE s = "XLONG XLAT" -> {"XLONG", "XLAT"}
    [] s = "XLONG XLAT XTIME" -> {"XLONG", "XLAT", "XTIME"}
    [] s = "XLONG" -> {"XLONG"}
    [] s = "XLAT" -> {"XLAT"}
    [] OTHER -> {}
JoinNames(S) ==
  CHOOSE s \in {"", "XLONG", "XLAT", "XLONG XLAT", "XLONG XLAT XTIME"} : SplitNames(s) = S

\* CF encoding of a datetime64 coordinate: integers with a units attribute.
IsDatetime(c) == \E i \in DOMAIN c.data : c.data[i].var = "datetime64"
TimeUnits == StrVal("days since 2010-03-18 00:00:00")
EncodeCoord(c) ==
  IF IsDatetime(c)
  THEN [dims |-> c.dims,
        data |-> [i \in DOMAIN c.data |-> Slice("int64", c.data[i].t - 1)],
        atts |-> [a \in {"units", "calendar"} |->
                    IF a = "units" THEN TimeUnits ELSE StrVal("proleptic_gregorian")]]
  ELSE [dims |-> c.dims, data |-> c.data, atts |-> EmptyFn]

\* The file xarray writes: the coordinates become variables and every data
\* variable names its non-index coordinates in a 'coordinates' attribute.
EncodeDataset(d) ==
  [atts |-> EmptyFn,
   dims |-> [n \in DOMAIN d.dims |-> [len |-> d.dims[n], unlim |-> FALSE]],
   vars |-> [n \in DOMAIN d.coords \cup DOMAIN d.vars |->
               IF n \in DOMAIN d.coords
               THEN EncodeCoord(d.coords[n])
               ELSE [dims |-> d.vars[n].dims,
                     data |-> d.vars[n].data,
                     atts |-> Ext(d.vars[n].attrs, "coordinates",
                                  StrVal(JoinNames(DOMAIN d.coords \ DOMAIN d.dims)))]]]

\* xr.open_dataset decodes the file: the variables named by 'coordinates'
\* attributes and those named like a dimension are coordinates, the
\* 'coordinates' attribute is consumed, and CF times are decoded.
CoordNames(nc) ==
  {n \in DOMAIN nc.vars :
     \/ n \in DOMAIN nc.dims
     \/ \E v \in DOMAIN nc.vars :
          /\ "coordinates" \in DOMAIN nc.vars[v].atts
          /\ n \in SplitNames(nc.vars[v].atts["coordinates"].val)}
DecodeCoord(c) ==
  IF "units" \in DOMAIN c.atts /\ c.atts["units"] = TimeUnits
  THEN [dims |-> c.dims,
        data |-> [i \in DOMAIN c.data |-> Slice("datetime64", c.data[i].t + 1)]]
  ELSE [dims |-> c.dims, data |-> c.data]
DecodeDataset(nc) ==
  [dims |-> [n \in DOMAIN nc.dims |-> nc.dims[n].len],
   coords |-> [n \in CoordNames(nc) |-> DecodeCoord(nc.vars[n])],
   vars |-> [n \in DOMAIN nc.vars \ CoordNames(nc) |->
               [dims |-> nc.vars[n].dims,
                data |-> nc.vars[n].data,
                attrs |-> Drop(nc.vars[n].atts, "coordinates")]]]

\* ----------------------------------------------------------- kernel state
VARIABLES
  ns,      \* the names bound in the kernel's namespace
  dst,     \* the in-memory netCDF Dataset bound to dst: open flag and content
  ds,      \* the xarray Dataset bound to ds
  ds2,     \* the xarray Dataset bound to ds2
  disk,    \* the files: path -> Absent or a netCDF file
  err,     \* how the last executed cell ended: "none" or the exception
  calls,   \* the ds.to_netcdf invocations made so far
  pc       \* position of the next cell in a top-to-bottom run

vars == <<ns, dst, ds, ds2, disk, err, calls, pc>>

\* The kernel state as one value, for the cell bodies below.
K == [ns |-> ns, dst |-> dst, ds |-> ds, ds2 |-> ds2, disk |-> disk,
      err |-> "none", calls |-> calls]

Raise(k, e) == [k EXCEPT !.err = e]
Bind(k, names) == [k EXCEPT !.ns = @ \cup names]

\* The kernel of a fresh session, with the two input files on disk.  Both
\* files are of domain d02 of one run: they have the same grid.
Fresh(nTs, nTcs, sizes) ==
  /\ ns = {}
  /\ dst = NoDst
  /\ ds = EmptyDs
  /\ ds2 = EmptyDs
  /\ \E nT \in nTs, nTc \in nTcs, unlimited \in BOOLEAN, ny \in sizes, nx \in sizes :
       disk = [p \in Paths |->
                 CASE p = SrcPath -> SrcFile(nT, unlimited, ny, nx)
                   [] p = CoordPath -> CoordFile(nTc, ny, nx)
                   [] OTHER -> Absent]
  /\ err = "none"
  /\ calls = {}
  /\ pc = 1

Init == Fresh(1..MaxTime, 1..MaxCoordTime, 1..MaxGrid)

\* ------------------------------------------------------- access to dst
\* Evaluating dst raises NameError while the name is unbound; a call on a
\* closed Dataset raises RuntimeError (NetCDF: Not a valid ID).
DstErr(k) ==
  IF "dst" \notin k.ns THEN "NameError"
  ELSE IF ~k.dst.open THEN "RuntimeError"
  ELSE "none"

\* dst.createVariable(name, datatype, dimensions)
CreateVariable(k, name, dims) ==
  IF DstErr(k) # "none" THEN Raise(k, DstErr(k))
  ELSE IF name \in DOMAIN k.dst.nc.vars THEN Raise(k, "RuntimeError")
  ELSE [k EXCEPT !.dst.nc = NcCreateVariable(@, name, dims)]

\* createVariable, [:] = data, setncatts: one variable copied from an open
\* source file into dst (cells 7 and 11).
CopyVariable(k, from, name) ==
  LET variable == k.disk[from].nc.vars[name]
      k1 == CreateVariable(k, name, variable.dims)
  IN IF k1.err # "none" THEN k1
     ELSE [k1 EXCEPT !.dst.nc =
             NcSetVarAtts(NcAssign(@, name, NcRead(k.disk[from].nc, name)),
                          name, variable.atts)]

\* try: dst.close() except NameError: pass   (cells 6 and 14)
CloseDst(k) ==
  IF "dst" \notin k.ns THEN k
  ELSE IF ~k.dst.open THEN Raise(k, "RuntimeError")
  ELSE [k EXCEPT !.dst.open = FALSE,
                 !.disk = DatasetCloseDisk(@, DstPath, "w", Diskless, Persist, k.dst.nc)]

\* Dataset(root_dir + path): an input file opened read-only and bound to a name.
OpenRead(k, path, name) ==
  IF ~({"Dataset", "root_dir"} \subseteq k.ns) THEN Raise(k, "NameError")
  ELSE IF k.disk[path].kind = "absent" THEN Raise(k, "FileNotFoundError")
  ELSE [Bind(k, {name}) EXCEPT !.disk = DatasetOpenDisk(@, path, "r", FALSE)]

\* ------------------------------------------------------------- the cells
\* cell 1: the imports
Cell1(k) == Bind(k, {"Dataset", "wrf", "xr", "np", "crs"})

\* cell 3: root_dir = ...; nc = Dataset(root_dir + '/wrfout_d02_...')
Cell3(k) ==
  LET k1 == Bind(k, {"root_dir"})
  IN OpenRead(k1, CoordPath, "nc")

\* cell 5: root_dir and my_vars
Cell5(k) == Bind(k, {"root_dir", "my_vars"})

\* for name, dimension in src.dimensions.items(): dst.createDimension(...)
RECURSIVE CopyDimensions(_, _, _)
CopyDimensions(nc, src, names) ==
  IF names = {} THEN nc
  ELSE LET name == CHOOSE n \in names : TRUE
       IN CopyDimensions(
            NcCreateDimension(nc, name, src.dims[name].len, src.dims[name].unlim),
            src, names \ {name})

\* cell 6: open src, close dst if it exists, create dst in memory, copy the
\* global attributes and the dimensions of src.
Cell6(k) ==
  LET k1 == OpenRead(k, SrcPath, "src")
  IN IF k1.err # "none" THEN k1
     ELSE LET k2 == CloseDst(k1)
          IN IF k2.err # "none" THEN k2
             ELSE LET src == k2.disk[SrcPath].nc
                      k3 == [Bind(k2, {"dst"}) EXCEPT
                               !.dst = NewDst,
                               !.disk = DatasetOpenDisk(@, DstPath, "w", Diskless)]
                      k4 == [k3 EXCEPT !.dst.nc.atts = SetAtts(@, src.atts)]
                  IN [k4 EXCEPT !.dst.nc = CopyDimensions(@, src, DOMAIN src.dims)]

\* cell 7: the Times variable of src is copied into dst.
Cell7(k) ==
  IF "src" \notin k.ns THEN Raise(k, "NameError")
  ELSE CopyVariable(k, SrcPath, "Times")

\* One turn of the loop of cell 8: the variable is created in dst, an array
\* of the variable's shape in dst is filled with the first record of the
\* coordinate file, and written with the attributes.
AddCoord(k, name) ==
  LET variable == k.disk[CoordPath].nc.vars[name]
      k1 == CreateVariable(k, name, variable.dims)
  IN IF k1.err # "none" THEN k1
     ELSE IF "np" \notin k1.ns THEN Raise(k1, "NameError")
     ELSE LET shape == NcShape(k1.dst.nc, name)
              correct_shape_arr ==
                [t \in 1..shape[1] |-> NcRead(k.disk[CoordPath].nc, name)[1]]
          IN [k1 EXCEPT !.dst.nc =
                NcSetVarAtts(NcAssign(@, name, correct_shape_arr), name, variable.atts)]

RECURSIVE ForCoords(_, _)
ForCoords(k, i) ==
  IF i > Len(coords) \/ k.err # "none" THEN k
  ELSE ForCoords(AddCoord(k, coords[i]), i + 1)

\* cell 8: XLAT and XLONG from the coordinate file, repeated for all times.
Cell8(k) ==
  LET k1 == OpenRead(k, CoordPath, "coord_file")
  IN IF k1.err # "none" THEN k1 ELSE ForCoords(k1, 1)

\* cell 9: sizes and global attributes read from dst.
Cell9(k) ==
  IF DstErr(k) # "none" THEN Raise(k, DstErr(k))
  ELSE Bind(k, {"nx", "ny", "dt", "dx", "dy", "cen_lat", "cen_lon", "truelat1",
                "truelat2", "STAND_LON", "pole_lat", "pole_lon"})

\* A 1-D axis variable of cell 10: created, filled with one point per index
\* and given units and axis.
AddAxis(k, name, axis) ==
  LET k1 == CreateVariable(k, name, <<name>>)
  IN IF k1.err # "none" THEN k1
     ELSE [k1 EXCEPT !.dst.nc =
             NcSetVarAtts(
               NcAssign(@, name, [i \in 1..k1.dst.nc.dims[name].len |-> Slice(name, i)]),
               name,
               [a \in {"units", "axis"} |-> StrVal(IF a = "units" THEN "m" ELSE axis)])]

\* cell 10: the projected origin from XLONG/XLAT[0,0,0], then the
\* south_north and west_east axis variables.
Cell10(k) ==
  IF "wrf" \notin k.ns THEN Raise(k, "NameError")
  ELSE IF DstErr(k) # "none" THEN Raise(k, DstErr(k))
  ELSE IF ~({"XLONG", "XLAT"} \subseteq DOMAIN k.dst.nc.vars) THEN Raise(k, "KeyError")
  ELSE IF NcShape(k.dst.nc, "XLONG")[1] = 0 THEN Raise(k, "IndexError")
  ELSE IF ~({"crs", "np", "nx", "ny", "dy"} \subseteq k.ns) THEN Raise(k, "NameError")
  ELSE LET k1 == Bind(k, {"x0_y0", "west_east_points", "south_north_points"})
           k2 == AddAxis(k1, "south_north", "y")
       IN IF k2.err # "none" THEN k2 ELSE AddAxis(k2, "west_east", "x")

RECURSIVE ForMyVarsCopy(_, _)
ForMyVarsCopy(k, i) ==
  IF i > Len(my_vars) \/ k.err # "none" THEN k
  ELSE ForMyVarsCopy(
         IF "src" \notin k.ns THEN Raise(k, "NameError")
         ELSE CopyVariable(k, SrcPath, my_vars[i]),
         i + 1)

\* cell 11: the chosen variables are copied from src into dst.
Cell11(k) ==
  IF "my_vars" \notin k.ns THEN Raise(k, "NameError") ELSE ForMyVarsCopy(k, 1)

\* What wrf.getvar(dst, v, ...) raises: it reads the variable, the Times and
\* the XLAT/XLONG variables of dst.
GetVarErr(k, v) ==
  IF "wrf" \notin k.ns THEN "NameError"
  ELSE IF DstErr(k) # "none" THEN DstErr(k)
  ELSE IF ~({v, "Times", "XLAT", "XLONG"} \subseteq DOMAIN k.dst.nc.vars) THEN "KeyError"
  ELSE "none"

\* cell 13: every variable of my_vars is asked from dst with wrf.getvar and
\* the DataArrays are merged into ds.
Cell13(k) ==
  IF "my_vars" \notin k.ns THEN Raise(Bind(k, {"da_list"}), "NameError")
  ELSE LET k1 == Bind(k, {"da_list"})
           failed == {i \in DOMAIN my_vars : GetVarErr(k1, my_vars[i]) # "none"}
       IN IF failed # {}
          THEN Raise(k1, GetVarErr(k1, my_vars[CHOOSE i \in failed :
                                                 \A j \in failed : i <= j]))
          ELSE IF "xr" \notin k1.ns THEN Raise(k1, "NameError")
          ELSE [Bind(k1, {"ds"}) EXCEPT
                  !.ds = Merge([i \in DOMAIN my_vars |-> GetVar(k1.dst.nc, my_vars[i])])]

\* cell 14: close the in-memory Dataset (if exists)
Cell14(k) == CloseDst(k)

\* Whether every variable of my_vars has a string as its 'projection'.
Converted(d) ==
  \A i \in DOMAIN my_vars :
     /\ my_vars[i] \in DOMAIN d.vars
     /\ "projection" \in DOMAIN d.vars[my_vars[i]].attrs
     /\ d.vars[my_vars[i]].attrs["projection"].type = "str"

\* ds.to_netcdf('test.nc'), called from `cell`.  xarray validates every
\* attribute before it opens the file (the traceback of cell 15:
\* _validate_attrs, check_attr), and refuses to encode a variable that
\* already has a 'coordinates' attribute; otherwise the file is written.
ToNetcdf(k, cell) ==
  IF "ds" \notin k.ns THEN Raise(k, "NameError")
  ELSE LET valid == \A v \in DOMAIN k.ds.vars :
                      \A a \in DOMAIN k.ds.vars[v].attrs :
                         Serializable(k.ds.vars[v].attrs[a])
           clash == \E v \in DOMAIN k.ds.vars : "coordinates" \in DOMAIN k.ds.vars[v].attrs
           outcome == IF ~valid THEN "TypeError" ELSE IF clash THEN "ValueError" ELSE "none"
           k1 == [k EXCEPT !.calls = @ \cup {[cell |-> cell,
                                             converted |-> Converted(k.ds),
                                             outcome |-> outcome]}]
       IN IF outcome # "none" THEN Raise(k1, outcome)
          ELSE [k1 EXCEPT !.disk[OutPath] = NcFile(EncodeDataset(k.ds))]

\* cell 15: the first ds.to_netcdf('test.nc')
Cell15(k) == ToNetcdf(k, 15)

\* cell 16: ds['SPDUV10MEAN'].attrs is shown
Cell16(k) ==
  IF "ds" \notin k.ns THEN Raise(k, "NameError")
  ELSE IF my_vars[1] \notin DOMAIN k.ds.vars THEN Raise(k, "KeyError")
  ELSE k

\* Mutant: the turn pops 'coordinates' and leaves 'projection' as it is.
FixAttrsPopOnly(k, v) ==
  IF "ds" \notin k.ns THEN Raise(k, "NameError")
  ELSE IF v \notin DOMAIN k.ds.vars \/ "coordinates" \notin DOMAIN k.ds.vars[v].attrs
  THEN Raise(k, "KeyError")
  ELSE [k EXCEPT !.ds.vars[v].attrs = Drop(@, "coordinates")]

\* Mutant: the turn turns every attribute into its string.
FixAttrsEveryAttr(k, v) ==
  IF "ds" \notin k.ns THEN Raise(k, "NameError")
  ELSE IF v \notin DOMAIN k.ds.vars \/ "coordinates" \notin DOMAIN k.ds.vars[v].attrs
  THEN Raise(k, "KeyError")
  ELSE [k EXCEPT !.ds.vars[v].attrs =
          [a \in DOMAIN @ \ {"coordinates"} |-> PyStr(@[a])]]

\* One turn of the loop of cell 17: 'projection' becomes its string and
\* 'coordinates' is popped.
FixAttrs(k, v) ==
  IF "ds" \notin k.ns THEN Raise(k, "NameError")
  ELSE IF v \notin DOMAIN k.ds.vars \/ "projection" \notin DOMAIN k.ds.vars[v].attrs
  THEN Raise(k, "KeyError")
  ELSE LET k1 == [k EXCEPT !.ds.vars[v].attrs["projection"] = PyStr(@)]
       IN IF "coordinates" \notin DOMAIN k1.ds.vars[v].attrs THEN Raise(k1, "KeyError")
          ELSE [k1 EXCEPT !.ds.vars[v].attrs = Drop(@, "coordinates")]

RECURSIVE ForMyVarsFix(_, _)
ForMyVarsFix(k, i) ==
  IF i > Len(my_vars) \/ k.err # "none" THEN k
  ELSE ForMyVarsFix(FixAttrs(k, my_vars[i]), i + 1)

\* cell 17: fix the attributes, then ds.to_netcdf('test.nc')
Cell17(k) ==
  IF "my_vars" \notin k.ns THEN Raise(k, "NameError")
  ELSE LET k1 == ForMyVarsFix(k, 1)
       IN IF k1.err # "none" THEN k1 ELSE ToNetcdf(k1, 17)

\* cell 18: !ls -ltrh test.nc  (a shell command: nothing is raised)
Cell18(k) == k

\* cell 20: ds2 = xr.open_dataset('test.nc')
Cell20(k) ==
  IF "xr" \notin k.ns THEN Raise(k, "NameError")
  ELSE IF k.disk[OutPath].kind = "absent" THEN Raise(k, "FileNotFoundError")
  ELSE [Bind(k, {"ds2"}) EXCEPT !.ds2 = DecodeDataset(k.disk[OutPath].nc)]

\* cell 21: ds2['SPDUV10MEAN'].attrs is shown
Cell21(k) ==
  IF "ds2" \notin k.ns THEN Raise(k, "NameError")
  ELSE IF my_vars[1] \notin DOMAIN k.ds2.vars THEN Raise(k, "KeyError")
  ELSE k

\* ----------------------------------------------------- running the cells
\* Mutant: the file is reopened before the cell that fixes and writes.
CellsReopenBeforeWrite == <<1, 3, 5, 6, 7, 8, 9, 10, 11, 13, 14, 15, 16, 20, 17, 18, 21>>
\* Mutant: the lat/lon cell runs before the Times cell.
CellsCoordsBeforeTimes == <<1, 3, 5, 6, 8, 7, 9, 10, 11, 13, 14, 15, 16, 17, 18, 20, 21>>
\* Mutant: dst is closed before the cell that calls wrf.getvar.
CellsCloseBeforeGetvar == <<1, 3, 5, 6, 7, 8, 9, 10, 11, 14, 13, 15, 16, 17, 18, 20, 21>>

\* The code cells in the order of the notebook.
Cells == <<1, 3, 5, 6, 7, 8, 9, 10, 11, 13, 14, 15, 16, 17, 18, 20, 21>>

Apply(k) ==
  /\ ns' = k.ns
  /\ dst' = k.dst
  /\ ds' = k.ds
  /\ ds2' = k.ds2
  /\ disk' = k.disk
  /\ err' = k.err
  /\ calls' = k.calls

\* A top-to-bottom run: the cell at position pc is executed, then the next
\* one, whether or not the cell ended in an exception (the execution counts
\* of the notebook go on after the TypeError of cell 15).
InOrder(c) ==
  /\ pc \in DOMAIN Cells
  /\ Cells[pc] = c
  /\ pc' = pc + 1

Run1 == InOrder(1) /\ Apply(Cell1(K))
Run3 == InOrder(3) /\ Apply(Cell3(K))
Run5 == InOrder(5) /\ Apply(Cell5(K))
Run6 == InOrder(6) /\ Apply(Cell6(K))
Run7 == InOrder(7) /\ Apply(Cell7(K))
Run8 == InOrder(8) /\ Apply(Cell8(K))
Run9 == InOrder(9) /\ Apply(Cell9(K))
Run10 == InOrder(10) /\ Apply(Cell10(K))
Run11 == InOrder(11) /\ Apply(Cell11(K))
Run13 == InOrder(13) /\ Apply(Cell13(K))
Run14 == InOrder(14) /\ Apply(Cell14(K))
Run15 == InOrder(15) /\ Apply(Cell15(K))
Run16 == InOrder(16) /\ Apply(Cell16(K))
Run17 == InOrder(17) /\ Apply(Cell17(K))
Run18 == InOrder(18) /\ Apply(Cell18(K))
Run20 == InOrder(20) /\ Apply(Cell20(K))
Run21 == InOrder(21) /\ Apply(Cell21(K))

Next ==
  \/ Run1 \/ Run3 \/ Run5 \/ Run6 \/ Run7 \/ Run8 \/ Run9 \/ Run10 \/ Run11
  \/ Run13 \/ Run14 \/ Run15 \/ Run16 \/ Run17 \/ Run18 \/ Run20 \/ Run21

Spec == Init /\ [][Next]_vars

\* An interactive session: any cell may be executed, and executed again, at
\* any time.
Exec1 == Apply(Cell1(K)) /\ UNCHANGED pc
Exec3 == Apply(Cell3(K)) /\ UNCHANGED pc
Exec5 == Apply(Cell5(K)) /\ UNCHANGED pc
Exec6 == Apply(Cell6(K)) /\ UNCHANGED pc
Exec7 == Apply(Cell7(K)) /\ UNCHANGED pc
Exec8 == Apply(Cell8(K)) /\ UNCHANGED pc
Exec9 == Apply(Cell9(K)) /\ UNCHANGED pc
Exec10 == Apply(Cell10(K)) /\ UNCHANGED pc
Exec11 == Apply(Cell11(K)) /\ UNCHANGED pc
Exec13 == Apply(Cell13(K)) /\ UNCHANGED pc
Exec14 == Apply(Cell14(K)) /\ UNCHANGED pc
Exec15 == Apply(Cell15(K)) /\ UNCHANGED pc
Exec16 == Apply(Cell16(K)) /\ UNCHANGED pc
Exec17 == Apply(Cell17(K)) /\ UNCHANGED pc
Exec18 == Apply(Cell18(K)) /\ UNCHANGED pc
Exec20 == Apply(Cell20(K)) /\ UNCHANGED pc
Exec21 == Apply(Cell21(K)) /\ UNCHANGED pc

NextSession ==
  \/ Exec1 \/ Exec3 \/ Exec5 \/ Exec6 \/ Exec7 \/ Exec8 \/ Exec9 \/ Exec10 \/ Exec11
  \/ Exec13 \/ Exec14 \/ Exec15 \/ Exec16 \/ Exec17 \/ Exec18 \/ Exec20 \/ Exec21

\* The session is explored on the largest grid and coordinate file only.
InitSession == Fresh(1..MaxTime, {MaxCoordTime}, {MaxGrid})

SpecSession == InitSession /\ [][NextSession]_vars

\* ------------------------------------------------------------ properties
\* Position of cell c in the run, and whether the run has executed it.
Pos(c) == CHOOSE i \in DOMAIN Cells : Cells[i] = c
Done(c) == pc > Pos(c)
\* The step of a top-to-bottom run that executes cell c.
StepOf(c) == pc \in DOMAIN Cells /\ Cells[pc] = c /\ pc' = pc + 1

VarSet == Range(my_vars)
SrcNc == disk[SrcPath].nc
CoordNc == disk[CoordPath].nc

\* The stages of the pipeline, read off the kernel state.
Opened == "src" \in ns
Copied ==
  /\ "dst" \in ns
  /\ dst.nc.atts = SrcNc.atts
  /\ DOMAIN dst.nc.dims = DOMAIN SrcNc.dims
  /\ {"Times", "XLAT", "XLONG"} \cup VarSet \subseteq DOMAIN dst.nc.vars
Derived == "da_list" \in ns
Merged == "ds" \in ns /\ DOMAIN ds.vars = VarSet
Patched == "ds" \in ns /\ Converted(ds)
Written == disk[OutPath].kind = "netcdf"
Reopened == "ds2" \in ns

C2_EveryCallConverted == \A c \in calls : c.converted

\* C2: the invocation of cell 17 is made with every 'projection' a string
\* and writes the file; an invocation writes the file only in such a state;
\* the invocation of cell 15 is made with the projection objects still in place and
\* ends in TypeError.
C2_WritingCallsConverted ==
  /\ \A c \in calls :
       /\ c.outcome = "none" => c.converted
       /\ c.cell = 17 => c.converted /\ c.outcome = "none"
       /\ c.cell = 15 => ~c.converted /\ c.outcome = "TypeError"
  /\ Done(17) => \E c \in calls : c.cell = 17
  /\ Done(15) => \E c \in calls : c.cell = 15

C2_Witness == \E c \in calls : c.cell = 17 /\ c.outcome = "none"

\* What the patch leaves alone in ds: dimensions, coordinates, and the
\* dimensions and data of every variable.
PatchFrame ==
  /\ ds'.dims = ds.dims
  /\ ds'.coords = ds.coords
  /\ DOMAIN ds'.vars = DOMAIN ds.vars
  /\ \A v \in DOMAIN ds.vars :
       /\ ds'.vars[v].dims = ds.vars[v].dims
       /\ ds'.vars[v].data = ds.vars[v].data

IsProjString(a) == a.type = "str" /\ a.val = ProjRepr

\* C3 as claimed: the patch of cell 17 changes only the value of
\* 'projection', which becomes its string form; the keys and every other
\* attribute, the data, the dimensions and the coordinates stay.
C3_OnlyProjectionChanges ==
  [][StepOf(17) =>
       /\ PatchFrame
       /\ \A v \in VarSet :
            /\ DOMAIN ds'.vars[v].attrs = DOMAIN ds.vars[v].attrs
            /\ IsProjString(ds'.vars[v].attrs["projection"])
            /\ \A a \in DOMAIN ds.vars[v].attrs \ {"projection"} :
                 ds'.vars[v].attrs[a] = ds.vars[v].attrs[a]]_vars

\* C3: the patch of cell 17 changes two attributes of every variable of
\* my_vars: 'projection' becomes its string form and the key 'coordinates'
\* is removed; every other attribute key and value, the data, the
\* dimensions and the coordinates stay.
C3_ProjectionAndCoordinatesChange ==
  [][StepOf(17) =>
       /\ PatchFrame
       /\ \A v \in VarSet :
            /\ "coordinates" \in DOMAIN ds.vars[v].attrs
            /\ ds.vars[v].attrs["projection"] = ProjObj
            /\ DOMAIN ds'.vars[v].attrs = DOMAIN ds.vars[v].attrs \ {"coordinates"}
            /\ IsProjString(ds'.vars[v].attrs["projection"])
            /\ \A a \in DOMAIN ds'.vars[v].attrs \ {"projection"} :
                 ds'.vars[v].attrs[a] = ds.vars[v].attrs[a]]_vars

C3_Witness ==
  /\ Done(17)
  /\ \A v \in VarSet :
       /\ IsProjString(ds.vars[v].attrs["projection"])
       /\ "coordinates" \notin DOMAIN ds.vars[v].attrs
       /\ "units" \in DOMAIN ds.vars[v].attrs

HasProjObj(d) ==
  \E v \in DOMAIN d.vars : \E a \in DOMAIN d.vars[v].attrs : ~Serializable(d.vars[v].attrs[a])

\* C4: a write attempted while an attribute is a projection object ends in
\* TypeError, changes neither ds nor the disk and leaves no test.nc; once the
\* attributes are fixed the write of the same ds succeeds and test.nc exists.
C4_FailedWriteThenSuccess ==
  /\ [][(StepOf(15) /\ "ds" \in ns /\ HasProjObj(ds)) =>
          /\ err' = "TypeError"
          /\ ds' = ds
          /\ disk' = disk
          /\ disk'[OutPath] = Absent]_vars
  /\ [](Done(15) => [cell |-> 15, converted |-> FALSE, outcome |-> "TypeError"] \in calls)
  /\ [](Done(17) =>
          /\ [cell |-> 17, converted |-> TRUE, outcome |-> "none"] \in calls
          /\ disk[OutPath] = NcFile(EncodeDataset(ds)))

C4_Witness ==
  /\ Done(17)
  /\ err = "none"
  /\ Written
  /\ \E c \in calls : c.cell = 15 /\ c.outcome = "TypeError"

\* C5: no step changes a file other than test.nc: the input files keep
\* their content and dst_tmp.nc never exists, whether dst is open or closed.
C5_OnlyOutputFileChanges ==
  /\ [][\A p \in Paths \ {OutPath} : disk'[p] = disk[p]]_vars
  /\ [](disk[DstPath] = Absent)

C5_Witness == "dst" \in ns /\ ~dst.open /\ Written /\ disk[DstPath] = Absent

\* C6: once test.nc is reopened, ds2 has the dimensions and sizes of ds, the
\* coordinates XLONG, XLAT and Time of ds, exactly the variables of my_vars
\* with the data of ds, and for each of them the attributes ds had when it
\* was written: 'projection' a string and no 'coordinates' key.
C6_RoundTrip ==
  /\ Done(20) => Reopened
  /\ Reopened =>
       /\ DOMAIN ds2.dims = Range(GridDims)
       /\ ds2.dims = ds.dims
       /\ DOMAIN ds2.coords = {"XLONG", "XLAT", "Time"}
       /\ ds2.coords = ds.coords
       /\ DOMAIN ds2.vars = VarSet
       /\ \A v \in VarSet :
            /\ ds2.vars[v].attrs = ds.vars[v].attrs
            /\ ds2.vars[v].data = ds.vars[v].data
            /\ ds2.vars[v].dims = ds.vars[v].dims
            /\ IsProjString(ds2.vars[v].attrs["projection"])
            /\ "coordinates" \notin DOMAIN ds2.vars[v].attrs

C6_Witness == Reopened /\ ds2 = ds /\ DOMAIN ds2.vars = VarSet

\* C7 as claimed: whenever cell 6 is executed with the imports and root_dir
\* in place, it ends without an exception and leaves dst bound to an open,
\* empty-of-variables in-memory Dataset.
C7_CreateCellAlwaysCompletes ==
  [][(Apply(Cell6(K)) /\ {"Dataset", "root_dir"} \subseteq ns) =>
       /\ err' = "none"
       /\ "dst" \in ns'
       /\ dst'.open
       /\ dst'.nc.vars = EmptyFn]_vars

\* C8: after the lat/lon cell, XLAT and XLONG of dst have one record for
\* every record of the Times of src, and each record is the first record of
\* the variable in the coordinate file.
C8_CoordsForAllTimes ==
  Done(8) =>
    \A i \in DOMAIN coords :
       /\ coords[i] \in DOMAIN dst.nc.vars
       /\ NcShape(dst.nc, coords[i])[1] = Len(SrcNc.vars["Times"].data)
       /\ Len(dst.nc.vars[coords[i]].data) = Len(SrcNc.vars["Times"].data)
       /\ \A t \in 1..Len(SrcNc.vars["Times"].data) :
            NcRead(dst.nc, coords[i])[t] = CoordNc.vars[coords[i]].data[1]

C8_Witness ==
  /\ Done(8)
  /\ SrcNc.dims["Time"].unlim
  /\ Len(SrcNc.vars["Times"].data) > 1
  /\ Len(CoordNc.vars["XLAT"].data) > 1
  /\ Len(dst.nc.vars["XLAT"].data) > 1

\* The cells whose code calls or reads dst.
UsesDst == {6, 7, 8, 9, 10, 11, 13}

\* C9: no cell of a top-to-bottom run touches dst after its close: no cell
\* ends in the closed-Dataset RuntimeError, dst is closed only after every
\* cell that uses it has run, and the patch and the write of ds succeed
\* with dst closed.
C9_NoUseAfterClose ==
  /\ err # "RuntimeError"
  /\ ("dst" \in ns /\ ~dst.open) => \A c \in UsesDst : Done(c)
  /\ Done(14) => "dst" \in ns /\ ~dst.open
  /\ Done(17) => Patched /\ Written /\ ~dst.open

C9_Witness == Done(17) /\ ~dst.open /\ Patched /\ Written /\ err = "none"

====
